---- MODULE Spec2Model ----
(***************************************************************************)
(* Weather bot: the weather-data retrieval, normalization and caching      *)
(* pipeline.  WeatherService (weather_service.py), the weather_cache and   *)
(* weather_requests tables of DatabaseManager (database.py) and the        *)
(* handlers of WeatherBot (main.py); parse_location_input (utils.py).      *)
(*                                                                         *)
(* Encoding of Python values:                                              *)
(*   dict        a function whose domain is the set of keys present        *)
(*   list, str   a sequence; '' and [] and {} are all the empty function   *)
(*   a time string 'YYYY-MM-DD HH:00' is <<day, hour>>, a date string      *)
(*   'YYYY-MM-DD' is <<day>>; a string that is parsed character by         *)
(*   character is the sequence of its characters                           *)
(*   float       a decimal [m, k] with value m / 10^k, k minimal            *)
(***************************************************************************)
EXTENDS Integers, Sequences, FiniteSets, TLC

VARIABLES
    call,              \* WeatherService: the fetch operation invoked last and its inputs
    ret,               \* WeatherService: what that invocation returned or raised
    now,               \* database: datetime.now(), in minutes
    weather_cache,     \* database: rows of table weather_cache, in insertion order
    weather_requests,  \* database: rows of table weather_requests, in insertion order
    lastOp,            \* database: the DatabaseManager call made last, with its result
    lastPut,           \* history: the arguments of the last cache_weather_data call
    putLog,            \* history: per (key, type), the last payload put and its expiry
    pc,                \* bot: per handler invocation, the await it is suspended at
    req,               \* bot: per handler invocation, the handler and its location
    got,               \* bot: per handler invocation, the fetch results so far
    reply,             \* bot: per handler invocation, the text shown to the user
    providerCalls,     \* bot: per handler invocation, the provider requests issued
    parsed,            \* utils: the input given to parse_location_input and its result
    worker,            \* database: per concurrent caller of cache_weather_data, its progress
    writeLock,         \* database: the connection that holds SQLite's write lock
    loggedAt,          \* history: per id of a weather_requests row, when it was inserted
    session,           \* WeatherService: self.session, and how many sessions were created
    task,               \* WeatherService: per concurrent fetch task, its progress
    users,             \* database: rows of table users, in insertion order
    user_locations,    \* database: rows of table user_locations, in insertion order
    userOp,            \* database: the call on those tables made last, with its result
    chosen,            \* history: per user, the language set_user_language set last
    lastDefault        \* history: per user, the id of the default location added last

fetchVars == <<call, ret>>
dbVars == <<now, weather_cache, weather_requests, lastOp, lastPut, putLog>>
botVars == <<pc, req, got, reply, providerCalls>>
parseVars == <<parsed>>
workerVars == <<worker, writeLock>>
logVars == <<loggedAt>>
sessionVars == <<session, task>>
userVars == <<users, user_locations, userOp, chosen, lastDefault>>
vars == <<call, ret, now, weather_cache, weather_requests, lastOp, lastPut, putLog,
          pc, req, got, reply, providerCalls, parsed, worker, writeLock, loggedAt,
          session, task, users, user_locations, userOp, chosen, lastDefault>>

(***************************************************************************)
(* Bounds of the model.                                                    *)
(***************************************************************************)
MaxDays == 8        \* forecast days a provider response may hold
MaxAlerts == 2      \* alerts a provider response may hold
MaxMatches == 2     \* matches a search response may hold
MaxTime == 3        \* the clock runs from 0 to MaxTime
MaxTtl == 2         \* ttl_minutes ranges over 0..MaxTtl
MaxRequests == 2    \* handler invocations in flight
MaxTokens == 4      \* comma-separated tokens of a place-name input
MaxRows == 2        \* rows ever inserted into weather_requests
MaxTasks == 2       \* fetch operations running concurrently on one WeatherService
MaxFavorites == 3   \* rows ever inserted into user_locations

(***************************************************************************)
(* Program constants.                                                      *)
(***************************************************************************)
HoursPerDay == 24   \* hour_index = (current_hour + i) % 24
WindowHours == 12   \* for i in range(12)
HttpOk == 200       \* response.status == 200
ForecastDays == 7   \* 'days': 7, the days get_7day_forecast asks the provider for

(***************************************************************************)
(* Python primitives.                                                      *)
(***************************************************************************)
EmptyDict == <<>>
EmptyList == <<>>
EmptyStr == <<>>

\* dict.get(k, default)
Get(d, k, default) == IF k \in DOMAIN d THEN d[k] ELSE default

\* the dict d without the keys outside S
Restrict(d, S) == [k \in (DOMAIN d) \cap S |-> d[k]]

\* a returned value, tagged with its Python type, or a raised exception
RetNone == [tag |-> "return", type |-> "none", value |-> <<>>]
RetDict(d) == [tag |-> "return", type |-> "dict", value |-> d]
RetList(l) == [tag |-> "return", type |-> "list", value |-> l]
Raised(e) == [tag |-> "raise", type |-> e, value |-> <<>>]

\* `not data`: None, {} and [] are falsy
Falsy(data) == data.type = "none" \/ data.value = <<>>

\* datetime.strptime(s, '%Y-%m-%d %H:%M'): ValueError unless s has that format
strptime_hour(s) ==
    IF Len(s) = 2 THEN RetDict([day |-> s[1], hour |-> s[2]]) ELSE Raised("ValueError")

\* time_obj.strftime('%I %p'): the 12-hour clock hour and AM/PM; the date is dropped
strftime_I_p(t) ==
    <<IF t.hour % 12 = 0 THEN 12 ELSE t.hour % 12, IF t.hour < 12 THEN "AM" ELSE "PM">>

\* datetime.strptime(s, '%Y-%m-%d')
strptime_date(s) ==
    IF Len(s) = 1 THEN RetDict([day |-> s[1]]) ELSE Raised("ValueError")

\* date_obj.strftime('%a, %b %d'): weekday and day
strftime_a_b_d(t) == <<t.day % 7, t.day>>

(***************************************************************************)
(* The transport: what session.get and response.json() do for one request. *)
(***************************************************************************)
TransportFaults == {"ClientConnectorError", "TimeoutError"}
ErrorStatuses == {401, 500}

Fault(e) == [kind |-> "raise", exc |-> e, status |-> 0, body |-> <<>>]
Http(s, b) == [kind |-> "http", exc |-> "", status |-> s, body |-> b]
BadJson == [kind |-> "badjson", exc |-> "ContentTypeError", status |-> HttpOk, body |-> <<>>]

Failures ==
    {Fault(e) : e \in TransportFaults} \cup {Http(s, <<>>) : s \in ErrorStatuses}
        \cup {BadJson}

\* the outcomes of one provider request whose HTTP-200 bodies are `bodies`
Transports(bodies) == Failures \cup {Http(HttpOk, b) : b \in bodies}

IsFailure(t) == t.kind # "http" \/ t.status # HttpOk

\* WeatherService._make_request, an exception re-raised instead of swallowed
make_request_reraise(t) ==
    IF t.kind = "http"
    THEN IF t.status = HttpOk THEN RetDict(t.body) ELSE RetNone
    ELSE Raised(t.exc)

\* WeatherService._make_request: the body of a 200 response, None otherwise
make_request(t) ==
    IF t.kind = "http"
    THEN IF t.status = HttpOk THEN RetDict(t.body) ELSE RetNone
    ELSE RetNone

(***************************************************************************)
(* Provider responses: the HTTP-200 bodies each endpoint may answer with.  *)
(* Every key may be absent; the values present are samples.                *)
(***************************************************************************)
FullCondition == [text |-> "Sunny"]
FullLocation == [name |-> "London", country |-> "UK"]
FullCurrent ==
    [temp_c |-> 21, feelslike_c |-> 19, humidity |-> 60, wind_kph |-> 12,
     wind_degree |-> 180, pressure_mb |-> 1013, vis_km |-> 10, uv |-> 5,
     last_updated |-> <<0, 12>>]

\* the dict d with key k bound to v
WithKey(d, k, v) == [x \in DOMAIN d \cup {k} |-> IF x = k THEN v ELSE d[x]]

Conditions == {EmptyDict, FullCondition}
Locations == {EmptyDict, Restrict(FullLocation, {"name"}), FullLocation}

CurrentDicts ==
    LET plain == {Restrict(FullCurrent, S) : S \in SUBSET DOMAIN FullCurrent}
    IN plain \cup {WithKey(d, "condition", c) : d \in plain, c \in Conditions}

CurrentBodies ==
    LET cur == {EmptyDict} \cup {[current |-> c] : c \in CurrentDicts}
    IN cur \cup {WithKey(b, "location", l) : b \in cur, l \in Locations}

\* pollutant concentrations, in whole micrograms per cubic metre
AqValues == {0, 30, 101}
Pollutants == {"co", "no2", "o3", "pm2_5", "pm10"}
AirQualityDicts ==
    UNION {[S -> AqValues] : S \in SUBSET Pollutants}
AirQualityBodies ==
    {EmptyDict, [current |-> EmptyDict]}
        \cup {[current |-> [air_quality |-> a]] : a \in AirQualityDicts}

\* the temperature the provider reports for hour h of day d: distinct for
\* every hour of every day, and never 0
TempAt(d, h) == d * HoursPerDay + h + 1

\* the provider's entry for hour h of day d
FullHour(d, h) ==
    [time |-> <<d, h>>, temp_c |-> TempAt(d, h), condition |-> FullCondition,
     chance_of_rain |-> 10, wind_kph |-> 12]

HourKeySets == {DOMAIN FullHour(0, 0), {"time", "temp_c"}}

\* the first n hours of day d, the entry at position m (if any) without its
\* time, every entry with the keys K only
HourList(d, n, m, K) ==
    [p \in 1..n |-> Restrict(FullHour(d, p - 1), IF p - 1 = m THEN K \ {"time"} ELSE K)]

\* forecast.json as get_12hour_forecast reads it: today's hours, and
\* tomorrow's when the provider sends a second day
HourlyBodies ==
    {EmptyDict, [forecast |-> EmptyDict], [forecast |-> [forecastday |-> <<>>]],
     [forecast |-> [forecastday |-> <<EmptyDict>>]]}
    \cup UNION {{[forecast |-> [forecastday |-> <<[hour |-> HourList(0, n, m, K)]>>]] :
                   m \in {-1, 0, n - 1}, K \in HourKeySets} : n \in 0..HoursPerDay}
    \cup {[forecast |-> [forecastday |->
              <<[hour |-> HourList(0, n, -1, DOMAIN FullHour(0, 0))],
                [hour |-> HourList(1, HoursPerDay, -1, DOMAIN FullHour(0, 0))]>>]] :
            n \in {HoursPerDay}}

FullDay ==
    [mintemp_c |-> 11, maxtemp_c |-> 23, condition |-> FullCondition,
     daily_chance_of_rain |-> 40, avghumidity |-> 70]
DayDicts ==
    LET plain == {Restrict(FullDay, S) : S \in SUBSET (DOMAIN FullDay \ {"condition"})}
    IN plain \cup {WithKey(d, "condition", c) : d \in plain, c \in Conditions}

\* the date strings a forecast day may carry: absent, '', malformed, well-formed
DateKinds == {"absent", "empty", "malformed", "ok"}
ForecastDay(i, dk, days) ==
    LET d0 == IF days = <<>> THEN EmptyDict ELSE [day |-> days[1]]
    IN CASE dk = "absent" -> d0
         [] dk = "empty" -> WithKey(d0, "date", EmptyStr)
         [] dk = "malformed" -> WithKey(d0, "date", <<i, 0, 0>>)
         [] OTHER -> WithKey(d0, "date", <<i>>)

\* forecast.json as get_7day_forecast reads it: n days, in ascending date,
\* each with the same `day` dict or with none
DailyBodies ==
    {EmptyDict, [forecast |-> EmptyDict]}
    \cup {[forecast |-> [forecastday |-> [i \in 1..n |-> ForecastDay(i, dk, days)]]] :
            n \in 0..MaxDays, dk \in DateKinds,
            days \in {<<>>} \cup {<<d>> : d \in DayDicts}}

FullAlert ==
    [headline |-> "Flood warning", desc |-> "Heavy rain", severity |-> "Severe",
     effective |-> <<0, 6>>, expires |-> <<0, 18>>, areas |-> "Thames"]
AlertDicts == {Restrict(FullAlert, S) : S \in SUBSET DOMAIN FullAlert}
AlertBodies ==
    {EmptyDict, [alerts |-> EmptyDict], [current |-> FullCurrent]}
    \cup {[alerts |-> [alert |-> [i \in 1..n |-> a]]] : n \in 0..MaxAlerts, a \in AlertDicts}

FullAstro ==
    [sunrise |-> "05:52 AM", sunset |-> "08:11 PM", moonrise |-> "09:00 PM",
     moonset |-> "06:00 AM", moon_phase |-> "Full Moon", moon_illumination |-> 98]
AstronomyBodies ==
    {EmptyDict, [astronomy |-> EmptyDict]}
    \cup {[astronomy |-> [astro |-> Restrict(FullAstro, S)]] : S \in SUBSET DOMAIN FullAstro}

FullMatch ==
    [name |-> "London", region |-> "City of London", country |-> "UK", lat |-> 51, lon |-> 1]
SearchBodies ==
    {[i \in 1..n |-> Restrict(FullMatch, S)] : n \in 0..MaxMatches, S \in SUBSET DOMAIN FullMatch}

FullHistoryDay ==
    [maxtemp_c |-> 23, mintemp_c |-> 11, avgtemp_c |-> 17, condition |-> FullCondition,
     totalprecip_mm |-> 3, avghumidity |-> 70, maxwind_kph |-> 30]
HistoryDayDicts ==
    LET plain == {Restrict(FullHistoryDay, S) :
                    S \in SUBSET (DOMAIN FullHistoryDay \ {"condition"})}
    IN plain \cup {WithKey(d, "condition", c) : d \in plain, c \in Conditions}
HistoryBodies ==
    {EmptyDict, [forecast |-> EmptyDict], [forecast |-> [forecastday |-> <<>>]],
     [forecast |-> [forecastday |-> <<EmptyDict>>]]}
    \cup {[forecast |-> [forecastday |-> <<[day |-> d]>>]] : d \in HistoryDayDicts}

(***************************************************************************)
(* WeatherService: the fetch operations.  An exception raised by an        *)
(* awaited call propagates to the caller unless the operation catches it.  *)
(***************************************************************************)
\* get_current_weather with a missing humidity reported as -1 (no reading)
\* instead of 0
get_current_weather_noreading(t) ==
    LET data == make_request(t)
    IN IF data.tag = "raise" THEN data
       ELSE IF Falsy(data) THEN RetNone
       ELSE LET current == Get(data.value, "current", EmptyDict)
                location_data == Get(data.value, "location", EmptyDict)
            IN RetDict(
                [location |-> <<Get(location_data, "name", ""),
                                Get(location_data, "country", "")>>,
                 temperature |-> Get(current, "temp_c", 0),
                 feels_like |-> Get(current, "feelslike_c", 0),
                 humidity |-> Get(current, "humidity", -1),
                 wind_speed |-> Get(current, "wind_kph", 0),
                 wind_direction |-> Get(current, "wind_degree", 0),
                 condition |-> Get(Get(current, "condition", EmptyDict), "text", ""),
                 pressure |-> Get(current, "pressure_mb", 0),
                 visibility |-> Get(current, "vis_km", 0),
                 uv_index |-> Get(current, "uv", 0),
                 last_updated |-> Get(current, "last_updated", EmptyStr),
                 sunrise |-> "05:52 AM",
                 sunset |-> "08:11 PM"])

get_current_weather(t) ==
    LET data == make_request(t)
    IN IF data.tag = "raise" THEN data
       ELSE IF Falsy(data) THEN RetNone
       ELSE LET current == Get(data.value, "current", EmptyDict)
                location_data == Get(data.value, "location", EmptyDict)
            IN RetDict(
                [location |-> <<Get(location_data, "name", ""),
                                Get(location_data, "country", "")>>,
                 temperature |-> Get(current, "temp_c", 0),
                 feels_like |-> Get(current, "feelslike_c", 0),
                 humidity |-> Get(current, "humidity", 0),
                 wind_speed |-> Get(current, "wind_kph", 0),
                 wind_direction |-> Get(current, "wind_degree", 0),
                 condition |-> Get(Get(current, "condition", EmptyDict), "text", ""),
                 pressure |-> Get(current, "pressure_mb", 0),
                 visibility |-> Get(current, "vis_km", 0),
                 uv_index |-> Get(current, "uv", 0),
                 last_updated |-> Get(current, "last_updated", EmptyStr),
                 sunrise |-> "05:52 AM",
                 sunset |-> "08:11 PM"])

\* the loop of get_12hour_forecast from iteration i on, `forecast` being the
\* entries appended so far
RECURSIVE HourLoop(_, _, _, _)
HourLoop(hours, current_hour, i, forecast) ==
    IF i = WindowHours THEN RetList(forecast)
    ELSE LET hour_index == (current_hour + i) % HoursPerDay
         IN IF hour_index < Len(hours)
            THEN LET hour_data == hours[hour_index + 1]
                     time_obj == strptime_hour(Get(hour_data, "time", EmptyStr))
                 IN IF time_obj.tag = "raise" THEN time_obj
                    ELSE HourLoop(hours, current_hour, i + 1,
                           Append(forecast,
                             [time |-> strftime_I_p(time_obj.value),
                              temperature |-> Get(hour_data, "temp_c", 0),
                              condition |->
                                  Get(Get(hour_data, "condition", EmptyDict), "text", ""),
                              precipitation |-> Get(hour_data, "chance_of_rain", 0),
                              wind_speed |-> Get(hour_data, "wind_kph", 0)]))
            ELSE HourLoop(hours, current_hour, i + 1, forecast)

\* get_12hour_forecast with the window starting at the hour after the
\* current one
get_12hour_forecast_next(t, current_hour) ==
    LET data == make_request(t)
    IN IF data.tag = "raise" THEN data
       ELSE IF Falsy(data) THEN RetList(EmptyList)
       ELSE LET forecast_data ==
                    Get(Get(data.value, "forecast", EmptyDict), "forecastday", EmptyList)
            IN IF forecast_data = EmptyList THEN RetList(EmptyList)
               ELSE HourLoop(Get(forecast_data[1], "hour", EmptyList), current_hour + 1,
                             0, EmptyList)

\* current_hour is datetime.now().hour
get_12hour_forecast(t, current_hour) ==
    LET data == make_request(t)
    IN IF data.tag = "raise" THEN data
       ELSE IF Falsy(data) THEN RetList(EmptyList)
       ELSE LET forecast_data ==
                    Get(Get(data.value, "forecast", EmptyDict), "forecastday", EmptyList)
            IN IF forecast_data = EmptyList THEN RetList(EmptyList)
               ELSE HourLoop(Get(forecast_data[1], "hour", EmptyList), current_hour, 0,
                             EmptyList)

\* one iteration of the loop of get_7day_forecast
DailyEntry(day_data) ==
    LET day == Get(day_data, "day", EmptyDict)
        date_str == Get(day_data, "date", EmptyStr)
        date_obj == strptime_date(date_str)
        formatted_date ==
            IF date_obj.tag = "raise" THEN date_str ELSE strftime_a_b_d(date_obj.value)
    IN [date |-> formatted_date,
        temp_min |-> Get(day, "mintemp_c", 0),
        temp_max |-> Get(day, "maxtemp_c", 0),
        condition |-> Get(Get(day, "condition", EmptyDict), "text", ""),
        precipitation_chance |-> Get(day, "daily_chance_of_rain", 0),
        humidity |-> Get(day, "avghumidity", 0)]

get_7day_forecast(t) ==
    LET data == make_request(t)
    IN IF data.tag = "raise" THEN data
       ELSE IF Falsy(data) THEN RetList(EmptyList)
       ELSE LET forecast_data ==
                    Get(Get(data.value, "forecast", EmptyDict), "forecastday", EmptyList)
            IN RetList([i \in 1..Len(forecast_data) |-> DailyEntry(forecast_data[i])])

\* the largest element of a non-empty set of numbers
Max(S) == CHOOSE x \in S : \A y \in S : y <= x

\* aqi_value with PM10 subtracted from the PM2.5 term instead of competing
\* with it
AqiValueTenths_net(co, no2, o3, pm25, pm10) ==
    Max({pm25 * 20 - pm10 * 10, no2 * 5, o3 * 5, co})

\* ten times aqi_value = max(pm25 * 2, pm10, no2 / 2, o3 / 2, co / 10): the
\* concentrations are whole numbers, so ten times the value is whole too
AqiValueTenths(co, no2, o3, pm25, pm10) ==
    Max({pm25 * 20, pm10 * 10, no2 * 5, o3 * 5, co})

\* the if/elif chain on aqi_value, which is not truncated
AqiStatus(tenths) ==
    IF tenths <= 500 THEN "Good"
    ELSE IF tenths <= 1000 THEN "Moderate"
    ELSE IF tenths <= 1500 THEN "Unhealthy for Sensitive Groups"
    ELSE "Unhealthy"

get_air_quality(t) ==
    LET data == make_request(t)
    IN IF data.tag = "raise" THEN data
       ELSE IF Falsy(data) THEN RetNone
       ELSE LET current == Get(data.value, "current", EmptyDict)
                air_quality == Get(current, "air_quality", EmptyDict)
                co == Get(air_quality, "co", 0)
                no2 == Get(air_quality, "no2", 0)
                o3 == Get(air_quality, "o3", 0)
                pm25 == Get(air_quality, "pm2_5", 0)
                pm10 == Get(air_quality, "pm10", 0)
                aqi_value == AqiValueTenths(co, no2, o3, pm25, pm10)
            IN RetDict([aqi |-> aqi_value \div 10,
                        status |-> AqiStatus(aqi_value),
                        co |-> co, no2 |-> no2, o3 |-> o3, pm25 |-> pm25, pm10 |-> pm10])

AlertEntry(alert) ==
    [title |-> Get(alert, "headline", ""),
     description |-> Get(alert, "desc", ""),
     severity |-> Get(alert, "severity", ""),
     start |-> Get(alert, "effective", EmptyStr),
     end |-> Get(alert, "expires", EmptyStr),
     areas |-> Get(alert, "areas", "")]

get_weather_alerts(t) ==
    LET data == make_request(t)
    IN IF data.tag = "raise" THEN data
       ELSE IF Falsy(data) THEN RetList(EmptyList)
       ELSE LET alerts_data ==
                    Get(Get(data.value, "alerts", EmptyDict), "alert", EmptyList)
            IN RetList([i \in 1..Len(alerts_data) |-> AlertEntry(alerts_data[i])])

get_astronomy_data(t) ==
    LET data == make_request(t)
    IN IF data.tag = "raise" THEN data
       ELSE IF Falsy(data) THEN RetNone
       ELSE LET astronomy ==
                    Get(Get(data.value, "astronomy", EmptyDict), "astro", EmptyDict)
            IN RetDict([sunrise |-> Get(astronomy, "sunrise", ""),
                        sunset |-> Get(astronomy, "sunset", ""),
                        moonrise |-> Get(astronomy, "moonrise", ""),
                        moonset |-> Get(astronomy, "moonset", ""),
                        moon_phase |-> Get(astronomy, "moon_phase", ""),
                        moon_illumination |-> Get(astronomy, "moon_illumination", 0)])

LocationEntry(location) ==
    [name |-> Get(location, "name", ""),
     region |-> Get(location, "region", ""),
     country |-> Get(location, "country", ""),
     lat |-> Get(location, "lat", 0),
     lon |-> Get(location, "lon", 0)]

search_locations(t) ==
    LET data == make_request(t)
    IN IF data.tag = "raise" THEN data
       ELSE IF Falsy(data) THEN RetList(EmptyList)
       ELSE RetList([i \in 1..Len(data.value) |-> LocationEntry(data.value[i])])

get_historical_weather(t, date) ==
    LET data == make_request(t)
    IN IF data.tag = "raise" THEN data
       ELSE IF Falsy(data) THEN RetNone
       ELSE LET forecast_day ==
                    Get(Get(data.value, "forecast", EmptyDict), "forecastday", EmptyList)
            IN IF forecast_day = EmptyList THEN RetNone
               ELSE LET day == Get(forecast_day[1], "day", EmptyDict)
                    IN RetDict([date |-> date,
                                max_temp |-> Get(day, "maxtemp_c", 0),
                                min_temp |-> Get(day, "mintemp_c", 0),
                                avg_temp |-> Get(day, "avgtemp_c", 0),
                                condition |->
                                    Get(Get(day, "condition", EmptyDict), "text", ""),
                                total_precipitation |-> Get(day, "totalprecip_mm", 0),
                                avg_humidity |-> Get(day, "avghumidity", 0),
                                max_wind |-> Get(day, "maxwind_kph", 0)])

(***************************************************************************)
(* Initial states of the three parts of the state.                         *)
(***************************************************************************)
Hours == 0..(HoursPerDay - 1)

Invocation(op, t, hour) == [op |-> op, t |-> t, hour |-> hour]

FetchInit ==
    /\ call = Invocation("none", Http(HttpOk, EmptyDict), 0)
    /\ ret = RetNone

(***************************************************************************)
(* SpecFetch: one invocation of a fetch operation of a WeatherService,     *)
(* with every transport outcome and provider response, at every hour.      *)
(***************************************************************************)
FetchCurrent ==
    /\ call.op = "none"
    /\ \E t \in Transports(CurrentBodies) :
           /\ call' = Invocation("get_current_weather", t, 0)
           /\ ret' = get_current_weather(t)
    /\ UNCHANGED <<dbVars, botVars, parseVars, workerVars, logVars, sessionVars, userVars>>

Fetch12Hour ==
    /\ call.op = "none"
    /\ \E t \in Transports(HourlyBodies), h \in Hours :
           /\ call' = Invocation("get_12hour_forecast", t, h)
           /\ ret' = get_12hour_forecast(t, h)
    /\ UNCHANGED <<dbVars, botVars, parseVars, workerVars, logVars, sessionVars, userVars>>

Fetch7Day ==
    /\ call.op = "none"
    /\ \E t \in Transports(DailyBodies) :
           /\ call' = Invocation("get_7day_forecast", t, 0)
           /\ ret' = get_7day_forecast(t)
    /\ UNCHANGED <<dbVars, botVars, parseVars, workerVars, logVars, sessionVars, userVars>>

FetchAirQuality ==
    /\ call.op = "none"
    /\ \E t \in Transports(AirQualityBodies) :
           /\ call' = Invocation("get_air_quality", t, 0)
           /\ ret' = get_air_quality(t)
    /\ UNCHANGED <<dbVars, botVars, parseVars, workerVars, logVars, sessionVars, userVars>>

FetchAlerts ==
    /\ call.op = "none"
    /\ \E t \in Transports(AlertBodies) :
           /\ call' = Invocation("get_weather_alerts", t, 0)
           /\ ret' = get_weather_alerts(t)
    /\ UNCHANGED <<dbVars, botVars, parseVars, workerVars, logVars, sessionVars, userVars>>

FetchAstronomy ==
    /\ call.op = "none"
    /\ \E t \in Transports(AstronomyBodies) :
           /\ call' = Invocation("get_astronomy_data", t, 0)
           /\ ret' = get_astronomy_data(t)
    /\ UNCHANGED <<dbVars, botVars, parseVars, workerVars, logVars, sessionVars, userVars>>

FetchSearch ==
    /\ call.op = "none"
    /\ \E t \in Transports(SearchBodies) :
           /\ call' = Invocation("search_locations", t, 0)
           /\ ret' = search_locations(t)
    /\ UNCHANGED <<dbVars, botVars, parseVars, workerVars, logVars, sessionVars, userVars>>

FetchHistorical ==
    /\ call.op = "none"
    /\ \E t \in Transports(HistoryBodies) :
           /\ call' = Invocation("get_historical_weather", t, 0)
           /\ ret' = get_historical_weather(t, <<0>>)
    /\ UNCHANGED <<dbVars, botVars, parseVars, workerVars, logVars, sessionVars, userVars>>

(***************************************************************************)
(* DatabaseManager: the weather_cache and weather_requests tables.         *)
(* A table is the sequence of its rows in insertion order; every statement *)
(* is committed by the method that executes it.                            *)
(***************************************************************************)
MinutesPerDay == 1440   \* timedelta(days=days), on a clock that counts minutes

RECURSIVE SeqOfSet(_)
SeqOfSet(S) ==
    IF S = {} THEN <<>>
    ELSE LET x == CHOOSE y \in S : TRUE IN <<x>> \o SeqOfSet(S \ {x})

\* json.dumps of a flat dict: the text, as its sequence of key/value members
json_dumps(d) ==
    LET keys == SeqOfSet(DOMAIN d)
    IN [i \in 1..Len(keys) |-> <<keys[i], d[keys[i]]>>]

\* json.loads of such a text: a dict with the keys of the members, a key
\* that occurs twice bound to its last value
json_loads(text) ==
    [k \in {text[i][1] : i \in DOMAIN text} |->
        LET last == Max({i \in DOMAIN text : text[i][1] = k}) IN text[last][2]]

\* INSERT OR REPLACE INTO weather_cache: the table declares location_key
\* UNIQUE (and nothing about data_type), so the rows that conflict with the
\* new row, and are deleted before it is inserted, are those with its
\* location_key
InsertOrReplace(rows, row) ==
    Append(SelectSeq(rows, LAMBDA r : r.location_key # row.location_key), row)

\* DatabaseManager.cache_weather_data: the table afterwards
cache_weather_data(rows, location_key, data_type, weather_data, ttl_minutes, t) ==
    LET expires_at == t + ttl_minutes
        data_json == json_dumps(weather_data)
    IN InsertOrReplace(rows,
           [location_key |-> location_key, data_type |-> data_type,
            weather_data |-> data_json, expires_at |-> expires_at])

\* the SELECT of get_cached_weather_data with expires_at >= ? for expires_at > ?
SelectFresh_inclusive(rows, location_key, data_type, t) ==
    SelectSeq(rows, LAMBDA r : /\ r.location_key = location_key
                               /\ r.data_type = data_type
                               /\ r.expires_at >= t)

\* SELECT weather_data FROM weather_cache
\* WHERE location_key = ? AND data_type = ? AND expires_at > ?
SelectFresh(rows, location_key, data_type, t) ==
    SelectSeq(rows, LAMBDA r : /\ r.location_key = location_key
                               /\ r.data_type = data_type
                               /\ r.expires_at > t)

\* DatabaseManager.get_cached_weather_data: the payload, or None
get_cached_weather_data(rows, location_key, data_type, t) ==
    LET found == SelectFresh(rows, location_key, data_type, t)
    IN IF found # <<>> THEN RetDict(json_loads(found[1].weather_data)) ELSE RetNone

\* DatabaseManager.cleanup_old_data: the two tables afterwards
cleanup_cache(rows, t) == SelectSeq(rows, LAMBDA r : ~(r.expires_at < t))
cleanup_requests(rows, days, t) ==
    LET cutoff_date == t - days * MinutesPerDay
    IN SelectSeq(rows, LAMBDA r : ~(r.created_at < cutoff_date))

\* DatabaseManager.log_weather_request: the table afterwards (no handler of
\* main.py calls it)
\* INSERT INTO weather_requests with the user of the new row for a key:
\* the rows of that user are replaced
log_weather_request_replace(rows, id, user_id, location, request_type, response_time, success, error_message, t) ==
    Append(SelectSeq(rows, LAMBDA r : r.user_id # user_id),
           [id |-> id, user_id |-> user_id, location |-> location,
            request_type |-> request_type, response_time |-> response_time,
            success |-> success, error_message |-> error_message,
            created_at |-> t])

\* id is the AUTOINCREMENT key of the new row and t the CURRENT_TIMESTAMP
\* that created_at defaults to
log_weather_request(rows, id, user_id, location, request_type, response_time, success, error_message, t) ==
    Append(rows, [id |-> id, user_id |-> user_id, location |-> location,
                  request_type |-> request_type, response_time |-> response_time,
                  success |-> success, error_message |-> error_message,
                  created_at |-> t])

(***************************************************************************)
(* SpecDb: the cache as its callers may use it, the clock advancing.       *)
(***************************************************************************)
LocationKeys == {"london"}
DataTypes == {"current", "forecast12h"}
Payloads ==
    {get_current_weather(Http(HttpOk, [current |-> FullCurrent,
                                       location |-> FullLocation])).value,
     get_current_weather(Http(HttpOk, [location |-> FullLocation])).value}
RetentionDays == {0, 30}

NoPut == [valid |-> FALSE, location_key |-> "", data_type |-> "",
          weather_data |-> EmptyDict, expires_at |-> 0]
DbCall(op, location_key, data_type, result) ==
    [op |-> op, location_key |-> location_key, data_type |-> data_type,
     result |-> result, days |-> 0]

DbInit ==
    /\ now = 0
    /\ weather_cache = <<>>
    /\ weather_requests = <<>>
    /\ lastOp = DbCall("none", "", "", RetNone)
    /\ lastPut = NoPut
    /\ putLog = [k \in LocationKeys \X DataTypes |-> NoPut]
    /\ loggedAt = <<>>

Tick ==
    /\ now < MaxTime
    /\ now' = now + 1
    /\ lastOp' = DbCall("tick", "", "", RetNone)
    /\ UNCHANGED <<weather_cache, weather_requests, lastPut, putLog>>
    /\ UNCHANGED <<fetchVars, botVars, parseVars, workerVars, logVars, sessionVars, userVars>>

CacheWeatherData ==
    \E k \in LocationKeys, dt \in DataTypes, p \in Payloads, ttl \in 0..MaxTtl :
        LET put == [valid |-> TRUE, location_key |-> k, data_type |-> dt,
                    weather_data |-> p, expires_at |-> now + ttl]
        IN /\ weather_cache' = cache_weather_data(weather_cache, k, dt, p, ttl, now)
           /\ lastOp' = DbCall("cache_weather_data", k, dt, RetList(<<TRUE>>))
           /\ lastPut' = put
           /\ putLog' = [putLog EXCEPT ![<<k, dt>>] = put]
           /\ UNCHANGED <<now, weather_requests>>
           /\ UNCHANGED <<fetchVars, botVars, parseVars, workerVars, logVars, sessionVars, userVars>>

GetCachedWeatherData ==
    \E k \in LocationKeys, dt \in DataTypes :
        /\ lastOp' = DbCall("get_cached_weather_data", k, dt,
                            get_cached_weather_data(weather_cache, k, dt, now))
        /\ UNCHANGED <<now, weather_cache, weather_requests, lastPut, putLog>>
        /\ UNCHANGED <<fetchVars, botVars, parseVars, workerVars, logVars, sessionVars, userVars>>

CleanupOldData ==
    \E days \in RetentionDays :
        /\ weather_requests' = cleanup_requests(weather_requests, days, now)
        /\ weather_cache' = cleanup_cache(weather_cache, now)
        /\ lastOp' = [DbCall("cleanup_old_data", "", "", RetList(<<TRUE>>))
                         EXCEPT !.days = days]
        /\ UNCHANGED <<now, lastPut, putLog>>
        /\ UNCHANGED <<fetchVars, botVars, parseVars, workerVars, logVars, sessionVars, userVars>>

\* the minutes local time is ahead of UTC when a row is inserted: created_at
\* defaults to CURRENT_TIMESTAMP, which is UTC, while cleanup_old_data
\* compares it with datetime.now(), which is local time
UtcOffsets == {-60, 0, 60}

\* SQLite's CURRENT_TIMESTAMP when the local clock reads t
CURRENT_TIMESTAMP(t, offset) == t - offset

\* log_weather_request for a request of user 1 that succeeded
LogWeatherRequest ==
    /\ Cardinality(DOMAIN loggedAt) < MaxRows
    /\ \E offset \in UtcOffsets :
           LET id == Cardinality(DOMAIN loggedAt) + 1
           IN /\ weather_requests' =
                     log_weather_request(weather_requests, id, 1, "London", "current", 0,
                                         TRUE, "", CURRENT_TIMESTAMP(now, offset))
              /\ loggedAt' = [i \in 1..id |-> IF i = id THEN now ELSE loggedAt[i]]
    /\ lastOp' = DbCall("log_weather_request", "", "", RetList(<<TRUE>>))
    /\ UNCHANGED <<now, weather_cache, lastPut, putLog>>
    /\ UNCHANGED <<fetchVars, botVars, parseVars, workerVars, sessionVars, userVars>>

(***************************************************************************)
(* SpecUpsert: two threads call cache_weather_data for the same key while  *)
(* a third reads.  Each thread has its own connection (_get_connection).   *)
(* cursor.execute runs the INSERT OR REPLACE inside the connection's       *)
(* implicit transaction and takes SQLite's write lock, which one           *)
(* connection holds at a time; conn.commit() makes the transaction visible *)
(* to the other connections and releases the lock.  A thread whose execute *)
(* finds the lock taken waits, and raises OperationalError (database is    *)
(* locked) if the wait times out.  A reader sees committed rows only.      *)
(***************************************************************************)
Workers == {"w1", "w2"}
UpsertKey == "london"
UpsertType == "current"

NoRow == [location_key |-> "", data_type |-> "", weather_data |-> <<>>, expires_at |-> 0]

\* a thread in cache_weather_data: where it is, the row of its statement,
\* the table as its transaction sees it, what it returned, and its place
\* among the commits
IdleWorker ==
    [pc |-> "idle", payload |-> EmptyDict, row |-> NoRow, pending |-> <<>>,
     result |-> "none", order |-> 0]

WorkerInit ==
    /\ worker = [w \in Workers |-> IdleWorker]
    /\ writeLock = "none"

Committed == {w \in Workers : worker[w].pc = "done" /\ worker[w].result = "True"}

\* lines 322-333: expires_at and data_json are computed and the statement is
\* executed; the row is in the thread's transaction, not yet in the table
UpsertExecute(w) ==
    /\ worker[w].pc = "idle"
    /\ writeLock = "none"
    /\ \E p \in Payloads, ttl \in 0..MaxTtl :
           LET table == cache_weather_data(weather_cache, UpsertKey, UpsertType, p, ttl, now)
           IN worker' = [worker EXCEPT ![w] =
                  [pc |-> "commit", payload |-> p, row |-> table[Len(table)],
                   pending |-> table, result |-> "none", order |-> 0]]
    /\ writeLock' = w
    /\ UNCHANGED <<dbVars, fetchVars, botVars, parseVars, logVars, sessionVars, userVars>>

\* execute finds the write lock held by the other connection until the busy
\* timeout: OperationalError, caught by except Exception, return False
UpsertBusy(w) ==
    /\ worker[w].pc = "idle"
    /\ writeLock # "none"
    /\ \E p \in Payloads, ttl \in 0..MaxTtl :
           worker' = [worker EXCEPT ![w] =
               [pc |-> "done", payload |-> p,
                row |-> [location_key |-> UpsertKey, data_type |-> UpsertType,
                         weather_data |-> json_dumps(p), expires_at |-> now + ttl],
                pending |-> <<>>, result |-> "False", order |-> 0]]
    /\ UNCHANGED <<writeLock, dbVars, fetchVars, botVars, parseVars, logVars, sessionVars, userVars>>

\* conn.commit() that publishes the payload of the new row and leaves the
\* expiry of the row it replaces
UpsertCommit_torn(w) ==
    /\ worker[w].pc = "commit"
    /\ weather_cache' =
           [i \in DOMAIN worker[w].pending |->
               IF weather_cache # <<>>
               THEN [worker[w].pending[i] EXCEPT !.expires_at = weather_cache[1].expires_at]
               ELSE worker[w].pending[i]]
    /\ worker' = [worker EXCEPT ![w].pc = "done", ![w].result = "True",
                                ![w].order = Cardinality(Committed) + 1]
    /\ writeLock' = "none"
    /\ UNCHANGED <<now, weather_requests, lastOp, lastPut, putLog>>
    /\ UNCHANGED <<fetchVars, botVars, parseVars, logVars, sessionVars, userVars>>

\* lines 335-336: conn.commit() and return True
UpsertCommit(w) ==
    /\ worker[w].pc = "commit"
    /\ weather_cache' = worker[w].pending
    /\ worker' = [worker EXCEPT ![w].pc = "done", ![w].result = "True",
                                ![w].order = Cardinality(Committed) + 1]
    /\ writeLock' = "none"
    /\ UNCHANGED <<now, weather_requests, lastOp, lastPut, putLog>>
    /\ UNCHANGED <<fetchVars, botVars, parseVars, logVars, sessionVars, userVars>>

(***************************************************************************)
(* WeatherBot: the handlers.  A handler runs as one asyncio task; it is    *)
(* suspended while a provider request is in flight and while a message is  *)
(* sent, and the tasks of different updates interleave at those points.    *)
(***************************************************************************)
Requests == 1..MaxRequests
BotLocations == {"London"}
ForecastTypes == {"12h", "7d", "other"}

FullBody(n) ==
    [current |-> FullCurrent, location |-> FullLocation,
     forecast |-> [forecastday |->
         [i \in 1..n |-> [date |-> <<i>>, day |-> FullDay,
                          hour |-> HourList(i - 1, HoursPerDay, -1,
                                            DOMAIN FullHour(0, 0))]]]]

\* the provider's answers to the requests of the handlers
BotBodies(op) ==
    CASE op = "get_12hour_forecast" ->
            {FullBody(1),
             [forecast |-> [forecastday |->
                 <<[hour |-> HourList(0, HoursPerDay, 0, DOMAIN FullHour(0, 0))]>>]]}
      [] op = "get_weather_alerts" ->
            {[alerts |-> [alert |-> <<>>]], [alerts |-> [alert |-> <<FullAlert>>]]}
      [] op = "get_air_quality" ->
            {[current |-> [air_quality |-> [p \in Pollutants |-> 30]]]}
      [] OTHER -> {FullBody(1)}

BotTransports(op) ==
    {Fault("TimeoutError"), Http(500, <<>>)} \cup {Http(HttpOk, b) : b \in BotBodies(op)}

\* datetime.now().hour when a handler asks for the 12-hour forecast
BotHours == {20}

\* the call of a WeatherService operation by name
Fetch(op, t, h) ==
    CASE op = "get_current_weather" -> get_current_weather(t)
      [] op = "get_12hour_forecast" -> get_12hour_forecast(t, h)
      [] op = "get_7day_forecast" -> get_7day_forecast(t)
      [] op = "get_air_quality" -> get_air_quality(t)
      [] op = "get_weather_alerts" -> get_weather_alerts(t)

\* the fetches a handler awaits, in the order of its statements
Fetches(rq) ==
    CASE rq.handler = "send_weather_info" ->
            <<"get_current_weather", "get_12hour_forecast", "get_7day_forecast",
              "get_air_quality">>
      [] rq.handler = "forecast_callback" ->
            IF rq.forecast_type = "12h" THEN <<"get_12hour_forecast">>
            ELSE IF rq.forecast_type = "7d" THEN <<"get_7day_forecast">>
            ELSE <<>>
      [] rq.handler = "air_quality_callback" -> <<"get_air_quality">>
      [] rq.handler = "alerts_callback" -> <<"get_weather_alerts">>
      [] OTHER -> <<>>

\* format_current_weather, format_12hour_forecast, format_7day_forecast and
\* format_air_quality answer no_data for a falsy argument
FormatOrNoData(data, title) == IF Falsy(data) THEN "no_data" ELSE title

\* the text a handler shows once its fetches have returned
RenderText(rq, results) ==
    CASE rq.handler = "send_weather_info" ->
            FormatOrNoData(results[1].result, "current_weather")
      [] rq.handler = "forecast_callback" ->
            IF rq.forecast_type = "12h"
            THEN FormatOrNoData(results[1].result, "12h_forecast_title")
            ELSE IF rq.forecast_type = "7d"
            THEN FormatOrNoData(results[1].result, "7d_forecast_title")
            ELSE "invalid_request"
      [] rq.handler = "air_quality_callback" ->
            FormatOrNoData(results[1].result, "air_quality_title")
      [] rq.handler = "alerts_callback" ->
            IF results[1].result.value # EmptyList THEN "weather_alerts_title"
            ELSE "no_active_alerts"

NoRequest == [handler |-> "none", forecast_type |-> "", location |-> ""]

BotInit ==
    /\ pc = [r \in Requests |-> "idle"]
    /\ req = [r \in Requests |-> NoRequest]
    /\ got = [r \in Requests |-> <<>>]
    /\ reply = [r \in Requests |-> ""]
    /\ providerCalls = [r \in Requests |-> <<>>]

\* an update arrives and its handler runs up to its first fetch:
\* send_weather_info shows the loading text, a callback answers the query.
\* The invocations are numbered in the order of their arrival.
Start(r, handler, forecast_type) ==
    \E location \in BotLocations :
        LET rq == [handler |-> handler, forecast_type |-> forecast_type,
                   location |-> location]
        IN /\ pc[r] = "idle"
           /\ \A q \in Requests : q < r => pc[q] # "idle"
           /\ req' = [req EXCEPT ![r] = rq]
           /\ reply' = [reply EXCEPT ![r] =
                           IF handler = "send_weather_info" THEN "loading" ELSE ""]
           /\ pc' = [pc EXCEPT ![r] = IF Fetches(rq) = <<>> THEN "render" ELSE "dispatch"]
           /\ UNCHANGED <<got, providerCalls>>
           /\ UNCHANGED <<fetchVars, dbVars, parseVars, workerVars, logVars, sessionVars, userVars>>

StartWeatherInfo(r) == Start(r, "send_weather_info", "")
StartForecast(r) == \E ft \in ForecastTypes : Start(r, "forecast_callback", ft)
StartAirQuality(r) == Start(r, "air_quality_callback", "")
StartAlerts(r) == Start(r, "alerts_callback", "")

\* the handler takes the result of its next fetch from a cache: no provider
\* request is issued
Dispatch_cached(r) ==
    /\ pc[r] = "dispatch"
    /\ pc' = [pc EXCEPT ![r] = "await"]
    /\ UNCHANGED <<req, got, reply, providerCalls>>
    /\ UNCHANGED <<fetchVars, dbVars, parseVars, workerVars, logVars, sessionVars, userVars>>

\* the handler calls its next fetch operation, whose _make_request issues
\* the provider request; nothing is looked up in weather_cache first
Dispatch(r) ==
    /\ pc[r] = "dispatch"
    /\ providerCalls' =
           [providerCalls EXCEPT ![r] = Append(@, Fetches(req[r])[Len(got[r]) + 1])]
    /\ pc' = [pc EXCEPT ![r] = "await"]
    /\ UNCHANGED <<req, got, reply>>
    /\ UNCHANGED <<fetchVars, dbVars, parseVars, workerVars, logVars, sessionVars, userVars>>

\* Complete with _make_request issuing the request again when it failed
Complete_retry(r) ==
    /\ pc[r] = "await"
    /\ LET op == Fetches(req[r])[Len(got[r]) + 1]
       IN \E t \in BotTransports(op), h \in BotHours :
            LET result == Fetch(op, t, h)
                entry == [op |-> op, failed |-> IsFailure(t), result |-> result]
            IN IF IsFailure(t)
               THEN /\ providerCalls' = [providerCalls EXCEPT ![r] = Append(@, op)]
                    /\ UNCHANGED <<got, pc>>
               ELSE /\ got' = [got EXCEPT ![r] = Append(@, entry)]
                    /\ pc' = [pc EXCEPT ![r] =
                                 IF result.tag = "raise" THEN "except"
                                 ELSE IF Len(got[r]) + 1 = Len(Fetches(req[r])) THEN "render"
                                 ELSE "dispatch"]
                    /\ UNCHANGED providerCalls
    /\ UNCHANGED <<req, reply>>
    /\ UNCHANGED <<fetchVars, dbVars, parseVars, workerVars, logVars, sessionVars, userVars>>

\* the provider request completes and the fetch operation returns or
\* raises; the handler goes on to its next statement, writing neither
\* weather_cache nor weather_requests
Complete(r) ==
    /\ pc[r] = "await"
    /\ LET op == Fetches(req[r])[Len(got[r]) + 1]
       IN \E t \in BotTransports(op), h \in BotHours :
            LET result == Fetch(op, t, h)
                entry == [op |-> op, failed |-> IsFailure(t), result |-> result]
            IN /\ got' = [got EXCEPT ![r] = Append(@, entry)]
               /\ pc' = [pc EXCEPT ![r] =
                            IF result.tag = "raise" THEN "except"
                            ELSE IF Len(got[r]) + 1 = Len(Fetches(req[r])) THEN "render"
                            ELSE "dispatch"]
    /\ UNCHANGED <<req, reply, providerCalls>>
    /\ UNCHANGED <<fetchVars, dbVars, parseVars, workerVars, logVars, sessionVars, userVars>>

\* the chat transport cancels the task of the handler while it awaits a
\* fetch: CancelledError is raised at the await, inside session.get, so the
\* provider request is abandoned with the task; except Exception does not
\* catch it, and the handler ends without a reply
Cancel(r) ==
    /\ pc[r] = "await"
    /\ pc' = [pc EXCEPT ![r] = "cancelled"]
    /\ UNCHANGED <<req, got, reply, providerCalls>>
    /\ UNCHANGED <<fetchVars, dbVars, parseVars, workerVars, logVars, sessionVars, userVars>>

\* the handler formats its text and edits the message
Render(r) ==
    /\ pc[r] = "render"
    /\ reply' = [reply EXCEPT ![r] = RenderText(req[r], got[r])]
    /\ pc' = [pc EXCEPT ![r] = "done"]
    /\ UNCHANGED <<req, got, providerCalls>>
    /\ UNCHANGED <<fetchVars, dbVars, parseVars, workerVars, logVars, sessionVars, userVars>>

\* except Exception: the handler shows error_occurred
Except(r) ==
    /\ pc[r] = "except"
    /\ reply' = [reply EXCEPT ![r] = "error_occurred"]
    /\ pc' = [pc EXCEPT ![r] = "done"]
    /\ UNCHANGED <<req, got, providerCalls>>
    /\ UNCHANGED <<fetchVars, dbVars, parseVars, workerVars, logVars, sessionVars, userVars>>

(***************************************************************************)
(* utils.parse_location_input.  A string is the sequence of its            *)
(* characters.                                                             *)
(***************************************************************************)
Whitespace == {" "}
Digits == {"0", "1", "2", "3", "4", "5", "6", "7", "8", "9"}

DigitValue(c) ==
    CASE c = "0" -> 0 [] c = "1" -> 1 [] c = "2" -> 2 [] c = "3" -> 3 [] c = "4" -> 4
      [] c = "5" -> 5 [] c = "6" -> 6 [] c = "7" -> 7 [] c = "8" -> 8 [] c = "9" -> 9

Least(S) == CHOOSE x \in S : \A y \in S : x <= y

\* str.strip(), str.lstrip()
strip(str) ==
    LET inked == {i \in DOMAIN str : str[i] \notin Whitespace}
    IN IF inked = {} THEN <<>> ELSE SubSeq(str, Least(inked), Max(inked))
lstrip(str) ==
    LET inked == {i \in DOMAIN str : str[i] \notin Whitespace}
    IN IF inked = {} THEN <<>> ELSE SubSeq(str, Least(inked), Len(str))

\* str.split(sep)
RECURSIVE split(_, _)
split(str, sep) ==
    LET at == {i \in DOMAIN str : str[i] = sep}
    IN IF at = {} THEN <<str>>
       ELSE <<SubSeq(str, 1, Least(at) - 1)>>
                \o split(SubSeq(str, Least(at) + 1, Len(str)), sep)

\* whether the whole of str matches -?\d+\.?\d* : an optional sign, a digit,
\* then digits with at most one point among them
MatchesNumber(str) ==
    LET body == IF str # <<>> /\ str[1] = "-" THEN Tail(str) ELSE str
    IN /\ body # <<>>
       /\ body[1] \in Digits
       /\ \A i \in DOMAIN body : body[i] \in Digits \cup {"."}
       /\ Cardinality({i \in DOMAIN body : body[i] = "."}) <= 1

\* re.match(r'^(-?\d+\.?\d*),\s*(-?\d+\.?\d*)$', str): the two groups, or
\* <<>> for no match.  A group holds no comma, so the comma of the pattern
\* is the first comma of str.
match_coord_pattern(str) ==
    LET at == {i \in DOMAIN str : str[i] = ","}
    IN IF at = {} THEN <<>>
       ELSE LET group1 == SubSeq(str, 1, Least(at) - 1)
                group2 == lstrip(SubSeq(str, Least(at) + 1, Len(str)))
            IN IF MatchesNumber(group1) /\ MatchesNumber(group2)
               THEN <<group1, group2>> ELSE <<>>

RECURSIVE DigitsValue(_)
DigitsValue(ds) ==
    IF ds = <<>> THEN 0
    ELSE DigitsValue(SubSeq(ds, 1, Len(ds) - 1)) * 10 + DigitValue(ds[Len(ds)])

RECURSIVE Pow10(_)
Pow10(k) == IF k = 0 THEN 1 ELSE 10 * Pow10(k - 1)

\* float(str) of a string that matches -?\d+\.?\d* : the decimal it denotes
float(str) ==
    LET negative == str[1] = "-"
        body == IF negative THEN Tail(str) ELSE str
        points == {i \in DOMAIN body : body[i] = "."}
        whole == IF points = {} THEN body ELSE SubSeq(body, 1, Least(points) - 1)
        fraction == IF points = {} THEN <<>>
                    ELSE SubSeq(body, Least(points) + 1, Len(body))
        significant == {i \in DOMAIN fraction : fraction[i] # "0"}
        k == IF significant = {} THEN 0 ELSE Max(significant)
        magnitude == DigitsValue(whole) * Pow10(k) + DigitsValue(SubSeq(fraction, 1, k))
    IN [m |-> IF negative THEN 0 - magnitude ELSE magnitude, k |-> k]

\* validate_coordinates with the bound of the longitude for the latitude too
validate_coordinates_wide(lat, lon) ==
    /\ -180 * Pow10(lat.k) <= lat.m /\ lat.m <= 180 * Pow10(lat.k)
    /\ -180 * Pow10(lon.k) <= lon.m /\ lon.m <= 180 * Pow10(lon.k)

\* -90 <= lat <= 90 and -180 <= lon <= 180
validate_coordinates(lat, lon) ==
    /\ -90 * Pow10(lat.k) <= lat.m /\ lat.m <= 90 * Pow10(lat.k)
    /\ -180 * Pow10(lon.k) <= lon.m /\ lon.m <= 180 * Pow10(lon.k)

\* the place-name result with the second part for the country
place_result_second(parts, query) ==
    [type |-> "location",
     city |-> parts[1],
     country |-> IF Len(parts) > 1 THEN parts[2] ELSE <<>>,
     region |-> IF Len(parts) > 2 THEN parts[2] ELSE <<>>,
     query |-> query]

\* the dict parse_location_input returns for the parts of a place name
place_result(parts, query) ==
    [type |-> "location",
     city |-> parts[1],
     country |-> IF Len(parts) > 1 THEN parts[Len(parts)] ELSE <<>>,
     region |-> IF Len(parts) > 2 THEN parts[2] ELSE <<>>,
     query |-> query]

parse_location_input(raw) ==
    LET location_input == strip(raw)
        coord_match == match_coord_pattern(location_input)
        lat == float(coord_match[1])
        lon == float(coord_match[2])
        pieces == split(location_input, ",")
    IN IF coord_match # <<>> /\ validate_coordinates(lat, lon)
       THEN [type |-> "coordinates", latitude |-> lat, longitude |-> lon,
             query |-> location_input]
       ELSE IF \E i \in DOMAIN location_input : location_input[i] = ","
       THEN place_result([i \in DOMAIN pieces |-> strip(pieces[i])], location_input)
       ELSE place_result(<<location_input>>, location_input)

(***************************************************************************)
(* SpecParse: one call of parse_location_input.  An input is typed as a    *)
(* list of tokens joined by commas; a token is a core (a name, a numeral   *)
(* or a malformed numeral) with blanks before and after it.  A numeral     *)
(* carries the decimal m / 10^k it denotes.                                *)
(***************************************************************************)
Token(lpad, core, rpad, kind, m, k) ==
    [lpad |-> lpad, core |-> core, rpad |-> rpad, kind |-> kind, m |-> m, k |-> k]

Blanks == {<<>>, <<" ">>}

\* the numerals, each with the value it denotes
Numerals ==
    {<<<<"0">>, 0, 0>>,
     <<<<"-", "0", ".", "5">>, -5, 1>>,
     <<<<"5", "1", ".", "5">>, 515, 1>>,
     <<<<"9", "0">>, 90, 0>>,
     <<<<"-", "9", "0", ".">>, -90, 0>>,
     <<<<"9", "0", ".", "0", "1">>, 9001, 2>>,
     <<<<"-", "9", "1">>, -91, 0>>,
     <<<<"1", "8", "0", ".", "0">>, 180, 0>>,
     <<<<"-", "1", "8", "0">>, -180, 0>>,
     <<<<"1", "8", "0", ".", "5">>, 1805, 1>>,
     <<<<"-", "1", "8", "1">>, -181, 0>>}

\* strings that are no numeral of the pattern
MalformedNumerals ==
    {<<".", "5">>, <<"-">>, <<"1", "e", "5">>, <<"+", "1">>, <<"1", ".", "2", ".", "3">>}

Names == {<<"O", "s", "l", "o">>, <<"N", " ", "Y">>}

NumberTokens ==
    {Token(l, n[1], r, "numeral", n[2], n[3]) : l \in Blanks, n \in Numerals, r \in Blanks}
    \cup {Token(<<>>, c, <<>>, "malformed", 0, 0) : c \in MalformedNumerals}

PlaceTokens ==
    {Token(<<>>, c, <<>>, "name", 0, 0) : c \in Names}
    \cup {Token(<<" ">>, <<"O", "s", "l", "o">>, <<" ">>, "name", 0, 0),
          Token(<<>>, <<>>, <<>>, "name", 0, 0),
          Token(<<" ">>, <<>>, <<>>, "name", 0, 0),
          Token(<<>>, <<"-", "9", "1">>, <<>>, "numeral", -91, 0),
          Token(<<>>, <<"0">>, <<>>, "numeral", 0, 0)}

\* the text of a token, and of a list of tokens joined by commas
TokenText(tok) == tok.lpad \o tok.core \o tok.rpad
RECURSIVE JoinTokens(_)
JoinTokens(toks) ==
    IF Len(toks) = 1 THEN TokenText(toks[1])
    ELSE TokenText(toks[1]) \o <<",">> \o JoinTokens(Tail(toks))

Parsed(toks, result) == [tokens |-> toks, input |-> JoinTokens(toks), result |-> result]

ParseInit ==
    parsed = [tokens |-> <<>>, input |-> <<>>, result |-> place_result(<<<<>>>>, <<>>)]

\* a latitude and a longitude, or what looks like them
ParseCoordinates ==
    /\ parsed.tokens = <<>>
    /\ \E a \in NumberTokens, b \in NumberTokens :
           parsed' = Parsed(<<a, b>>, parse_location_input(JoinTokens(<<a, b>>)))
    /\ UNCHANGED <<fetchVars, dbVars, botVars, workerVars, logVars, sessionVars, userVars>>

\* a place name of one to MaxTokens tokens
ParsePlace ==
    /\ parsed.tokens = <<>>
    /\ \E n \in 1..MaxTokens :
           \E toks \in [1..n -> PlaceTokens] :
               parsed' = Parsed(toks, parse_location_input(JoinTokens(toks)))
    /\ UNCHANGED <<fetchVars, dbVars, botVars, workerVars, logVars, sessionVars, userVars>>

(***************************************************************************)
(* SpecSession: the aiohttp session of one WeatherService, with fetch      *)
(* operations running as concurrent tasks of one event loop and close()    *)
(* called at any moment.  _get_session has no await between its test and   *)
(* its assignment, so it runs without interleaving.  A closed              *)
(* ClientSession raises RuntimeError (Session is closed) from get().       *)
(***************************************************************************)
Tasks == 1..MaxTasks
SessionOps == {"get_current_weather", "get_weather_alerts"}

\* self.session: id 0 is None, otherwise the number of the ClientSession;
\* created counts the ClientSession() calls.  closeCalled, createdAtClose
\* and closedId are history: whether close() was called, how many sessions
\* existed then, and which session a close() closed.
NoSession ==
    [id |-> 0, state |-> "none", created |-> 0,
     closeCalled |-> FALSE, createdAtClose |-> 0, closedId |-> 0]

IdleTask ==
    [pc |-> "idle", op |-> "", used |-> 0, afterClose |-> FALSE, afterClosed |-> FALSE,
     result |-> RetNone]

SessionInit ==
    /\ session = NoSession
    /\ task = [t \in Tasks |-> IdleTask]

\* _get_session creating a ClientSession on every call
get_session_fresh(s) ==
    [s EXCEPT !.id = s.created + 1, !.state = "open", !.created = s.created + 1]

\* _get_session replacing a session that was closed
get_session_reopen(s) ==
    IF s.id = 0 \/ s.state = "closed"
    THEN [s EXCEPT !.id = s.created + 1, !.state = "open", !.created = s.created + 1]
    ELSE s

\* WeatherService._get_session: self.session afterwards
get_session(s) ==
    IF s.id = 0
    THEN [s EXCEPT !.id = s.created + 1, !.state = "open", !.created = s.created + 1]
    ELSE s

\* a fetch operation is called: _make_request gets the session and calls
\* session.get, which sends the request, or raises if the session is
\* closed; the exception is caught and the operation returns its failure
\* value
SessionDispatch(t) ==
    /\ task[t].pc = "idle"
    /\ \E op \in SessionOps, h \in BotHours :
           LET s == get_session(session)
               started == [IdleTask EXCEPT !.op = op, !.used = s.id,
                                           !.afterClose = session.closeCalled,
                                           !.afterClosed = session.closedId # 0]
           IN /\ session' = s
              /\ task' = [task EXCEPT ![t] =
                     IF s.state = "closed"
                     THEN [started EXCEPT !.pc = "done",
                                          !.result = Fetch(op, Fault("RuntimeError"), h)]
                     ELSE [started EXCEPT !.pc = "await"]]
    /\ UNCHANGED <<fetchVars, dbVars, botVars, parseVars, workerVars, logVars, userVars>>

\* the request of a task completes: the response, or the failure of the
\* transport (as when the session was closed under it)
SessionComplete(t) ==
    /\ task[t].pc = "await"
    /\ \E tr \in BotTransports(task[t].op), h \in BotHours :
           task' = [task EXCEPT ![t].pc = "done",
                                ![t].result = Fetch(task[t].op, tr, h)]
    /\ UNCHANGED session
    /\ UNCHANGED <<fetchVars, dbVars, botVars, parseVars, workerVars, logVars, userVars>>

\* WeatherService.close: if self.session: await self.session.close()
SessionClose ==
    /\ ~session.closeCalled \/ session.state = "open"
    /\ session' =
           [session EXCEPT
               !.state = IF session.id # 0 THEN "closed" ELSE @,
               !.closeCalled = TRUE,
               !.createdAtClose = IF session.closeCalled THEN @ ELSE session.created,
               !.closedId = IF @ = 0 THEN session.id ELSE @]
    /\ UNCHANGED task
    /\ UNCHANGED <<fetchVars, dbVars, botVars, parseVars, workerVars, logVars, userVars>>

(***************************************************************************)
(* DatabaseManager: the users and user_locations tables.                   *)
(***************************************************************************)
\* a returned str
RetStr(x) == [tag |-> "return", type |-> "str", value |-> <<x>>]

\* the columns set_user_settings may update
SettingColumns == {"temperature_unit", "wind_unit", "default_location", "notification_enabled"}

\* INSERT OR REPLACE INTO users (user_id, username, first_name, last_name,
\* language_code, updated_at): the row with this user_id, if any, is
\* deleted, and the columns the statement does not name get the defaults
\* of the table
add_user(rows, user_id, username, language_code) ==
    Append(SelectSeq(rows, LAMBDA r : r.user_id # user_id),
           [user_id |-> user_id, username |-> username, language_code |-> language_code,
            default_location |-> "NULL", temperature_unit |-> "celsius",
            wind_unit |-> "kmh", notification_enabled |-> "1"])

\* UPDATE users SET language_code = ? WHERE user_id = ?
set_user_language(rows, user_id, language_code) ==
    [i \in DOMAIN rows |->
        IF rows[i].user_id = user_id
        THEN [rows[i] EXCEPT !.language_code = language_code] ELSE rows[i]]

\* SELECT language_code FROM users WHERE user_id = ?: the language, or None
get_user_language(rows, user_id) ==
    LET found == SelectSeq(rows, LAMBDA r : r.user_id = user_id)
    IN IF found # <<>> THEN RetStr(found[1].language_code) ELSE RetNone

\* UPDATE users SET <the keys of settings among SettingColumns> WHERE user_id = ?
set_user_settings(rows, user_id, settings) ==
    [i \in DOMAIN rows |->
        IF rows[i].user_id = user_id
        THEN [c \in DOMAIN rows[i] |->
                 IF c \in SettingColumns \cap DOMAIN settings THEN settings[c] ELSE rows[i][c]]
        ELSE rows[i]]

\* add_favorite_location that leaves the defaults there are
add_favorite_location_keep(rows, id, user_id, location_name, is_default) ==
    Append(rows, [id |-> id, user_id |-> user_id, location_name |-> location_name,
                  is_default |-> is_default])

\* add_favorite_location: UPDATE user_locations SET is_default = 0 WHERE
\* user_id = ? if is_default, then the INSERT; id is the AUTOINCREMENT key
add_favorite_location(rows, id, user_id, location_name, is_default) ==
    LET unset == [i \in DOMAIN rows |->
                     IF is_default /\ rows[i].user_id = user_id
                     THEN [rows[i] EXCEPT !.is_default = FALSE] ELSE rows[i]]
    IN Append(unset, [id |-> id, user_id |-> user_id, location_name |-> location_name,
                      is_default |-> is_default])

(***************************************************************************)
(* SpecUsers: the calls on the users table.  SpecFavorites: the calls of   *)
(* add_favorite_location.                                                  *)
(***************************************************************************)
UserIds == {1, 2}
Languages == {"en", "es"}
SettingsChoices ==
    {[temperature_unit |-> "fahrenheit"],
     [wind_unit |-> "mph", notification_enabled |-> "0"],
     [default_location |-> "Oslo", language_code |-> "de"]}
FavoriteNames == {"Oslo", "Home"}

UserCall(op, user_id, result) == [op |-> op, user_id |-> user_id, result |-> result]

UserInit ==
    /\ users = <<>>
    /\ user_locations = <<>>
    /\ userOp = UserCall("none", 0, RetNone)
    /\ chosen = [u \in UserIds |-> "none"]
    /\ lastDefault = [u \in UserIds |-> 0]

AddUser ==
    \E u \in UserIds, lang \in Languages :
        /\ users' = add_user(users, u, "name", lang)
        /\ userOp' = UserCall("add_user", u, RetList(<<TRUE>>))
        /\ chosen' = [chosen EXCEPT ![u] = "none"]
        /\ UNCHANGED <<user_locations, lastDefault>>
        /\ UNCHANGED <<fetchVars, dbVars, botVars, parseVars, workerVars, logVars, sessionVars>>

\* as language_callback calls it: the result is True whether or not a row
\* was updated
SetUserLanguage ==
    \E u \in UserIds, lang \in Languages :
        /\ users' = set_user_language(users, u, lang)
        /\ userOp' = UserCall("set_user_language", u, RetList(<<TRUE>>))
        /\ chosen' = [chosen EXCEPT ![u] = lang]
        /\ UNCHANGED <<user_locations, lastDefault>>
        /\ UNCHANGED <<fetchVars, dbVars, botVars, parseVars, workerVars, logVars, sessionVars>>

GetUserLanguage ==
    \E u \in UserIds :
        /\ userOp' = UserCall("get_user_language", u, get_user_language(users, u))
        /\ UNCHANGED <<users, user_locations, chosen, lastDefault>>
        /\ UNCHANGED <<fetchVars, dbVars, botVars, parseVars, workerVars, logVars, sessionVars>>

SetUserSettings ==
    \E u \in UserIds, settings \in SettingsChoices :
        /\ users' = set_user_settings(users, u, settings)
        /\ userOp' = UserCall("set_user_settings", u, RetList(<<TRUE>>))
        /\ UNCHANGED <<user_locations, chosen, lastDefault>>
        /\ UNCHANGED <<fetchVars, dbVars, botVars, parseVars, workerVars, logVars, sessionVars>>

AddFavoriteLocation ==
    /\ Len(user_locations) < MaxFavorites
    /\ \E u \in UserIds, name \in FavoriteNames, is_default \in BOOLEAN :
           LET id == Len(user_locations) + 1
           IN /\ user_locations' = add_favorite_location(user_locations, id, u, name, is_default)
              /\ userOp' = UserCall("add_favorite_location", u, RetList(<<TRUE>>))
              /\ lastDefault' = IF is_default THEN [lastDefault EXCEPT ![u] = id]
                                ELSE lastDefault
    /\ UNCHANGED <<users, chosen>>
    /\ UNCHANGED <<fetchVars, dbVars, botVars, parseVars, workerVars, logVars, sessionVars>>

(***************************************************************************)
(* The specifications.                                                     *)
(***************************************************************************)
Init == FetchInit /\ DbInit /\ BotInit /\ ParseInit /\ WorkerInit /\ SessionInit
            /\ UserInit

NextFetch ==
    \/ FetchCurrent
    \/ Fetch12Hour
    \/ Fetch7Day
    \/ FetchAirQuality
    \/ FetchAlerts
    \/ FetchAstronomy
    \/ FetchSearch
    \/ FetchHistorical

NextDb ==
    \/ Tick
    \/ CacheWeatherData
    \/ GetCachedWeatherData
    \/ CleanupOldData

Next ==
    \E r \in Requests :
        \/ StartWeatherInfo(r)
        \/ StartForecast(r)
        \/ StartAirQuality(r)
        \/ StartAlerts(r)
        \/ Dispatch(r)
        \/ Complete(r)
        \/ Cancel(r)
        \/ Render(r)
        \/ Except(r)

NextLog ==
    \/ Tick
    \/ LogWeatherRequest
    \/ GetCachedWeatherData
    \/ CleanupOldData

NextMaintenance ==
    \/ Tick
    \/ CacheWeatherData
    \/ GetCachedWeatherData
    \/ LogWeatherRequest
    \/ CleanupOldData

NextSession ==
    \/ \E t \in Tasks : SessionDispatch(t)
    \/ \E t \in Tasks : SessionComplete(t)
    \/ SessionClose

NextUsers ==
    \/ AddUser
    \/ SetUserLanguage
    \/ GetUserLanguage
    \/ SetUserSettings

NextFavorites == AddFavoriteLocation

NextUpsert ==
    \/ \E w \in Workers : UpsertExecute(w)
    \/ \E w \in Workers : UpsertBusy(w)
    \/ \E w \in Workers : UpsertCommit(w)
    \/ GetCachedWeatherData
    \/ Tick

NextParse ==
    \/ ParseCoordinates
    \/ ParsePlace

SpecFetch == Init /\ [][NextFetch]_vars
SpecDb == Init /\ [][NextDb]_vars
Spec == Init /\ [][Next]_vars
\* the event loop runs every task that can run
SpecLive == Spec /\ WF_vars(Next)
SpecParse == Init /\ [][NextParse]_vars
SpecUpsert == Init /\ [][NextUpsert]_vars
SpecSession == Init /\ [][NextSession]_vars
SpecUsers == Init /\ [][NextUsers]_vars
SpecFavorites == Init /\ [][NextFavorites]_vars
SpecLog == Init /\ [][NextLog]_vars
SpecMaintenance == Init /\ [][NextMaintenance]_vars

(***************************************************************************)
(* Properties of the WeatherService operations (SpecFetch).                *)
(***************************************************************************)
ListOps ==
    {"get_12hour_forecast", "get_7day_forecast", "get_weather_alerts", "search_locations"}

\* the value an operation returns for a request that failed
FailureValue(op) == IF op \in ListOps THEN RetList(EmptyList) ELSE RetNone

Invoked == call.op # "none"

\* C5: whenever the transport raises or the provider answers with a status
\* other than 200, the fetch operation returns its failure value (None, or
\* the empty list) and raises nothing.
C5_FailureIsReturned ==
    (Invoked /\ IsFailure(call.t)) => ret = FailureValue(call.op)

C5_Witness ==
    /\ call.op = "get_7day_forecast"
    /\ call.t.kind = "raise"
    /\ ret = RetList(EmptyList)

\* the fields of the canonical payload of each operation (of each entry,
\* for an operation that returns a list)
CanonicalFields(op) ==
    CASE op = "get_current_weather" ->
            {"location", "temperature", "feels_like", "humidity", "wind_speed",
             "wind_direction", "condition", "pressure", "visibility", "uv_index",
             "last_updated", "sunrise", "sunset"}
      [] op = "get_12hour_forecast" ->
            {"time", "temperature", "condition", "precipitation", "wind_speed"}
      [] op = "get_7day_forecast" ->
            {"date", "temp_min", "temp_max", "condition", "precipitation_chance",
             "humidity"}
      [] op = "get_air_quality" -> {"aqi", "status", "co", "no2", "o3", "pm25", "pm10"}
      [] op = "get_weather_alerts" ->
            {"title", "description", "severity", "start", "end", "areas"}
      [] op = "get_astronomy_data" ->
            {"sunrise", "sunset", "moonrise", "moonset", "moon_phase", "moon_illumination"}
      [] op = "search_locations" -> {"name", "region", "country", "lat", "lon"}
      [] OTHER ->
            {"date", "max_temp", "min_temp", "avg_temp", "condition",
             "total_precipitation", "avg_humidity", "max_wind"}

\* C7: for every HTTP-200 response, whichever fields it lacks, the fetch
\* operation does not raise, and the payload it returns has every canonical
\* field.
C7_SchemaTotal ==
    (Invoked /\ ~IsFailure(call.t)) =>
        /\ ret.tag = "return"
        /\ ret.type = "dict" => DOMAIN ret.value = CanonicalFields(call.op)
        /\ ret.type = "list" =>
               \A j \in 1..Len(ret.value) :
                   DOMAIN ret.value[j] = CanonicalFields(call.op)

Returned12h == call.op = "get_12hour_forecast" /\ ret.tag = "return"

\* the number of entries of the hour list of the first forecast day
TodayHourCount ==
    LET fd == Get(Get(call.t.body, "forecast", EmptyDict), "forecastday", EmptyList)
    IN IF fd = EmptyList THEN 0 ELSE Len(Get(fd[1], "hour", EmptyList))

\* the provider's hour an entry of the result was made from, counted from
\* 00:00 today (TempAt gives every hour its own temperature)
AbsoluteHour(entry) == entry.temperature - 1

\* the list positions (current_hour + i) % 24, i = 0..11 in increasing i,
\* that a list of n entries has
WindowPositions(current_hour, n) ==
    SelectSeq([i \in 1..WindowHours |-> (current_hour + i - 1) % HoursPerDay],
              LAMBDA p : p < n)

EntryPositions == [j \in 1..Len(ret.value) |-> AbsoluteHour(ret.value[j])]

C10_NextTwelveHours ==
    (Returned12h /\ TodayHourCount = HoursPerDay) =>
        \A j \in 1..Len(ret.value) :
            /\ AbsoluteHour(ret.value[j]) >= call.hour
            /\ AbsoluteHour(ret.value[j]) = call.hour + j - 1

Returned7d == call.op = "get_7day_forecast" /\ ret.tag = "return" /\ ~IsFailure(call.t)

\* the provider's daily list of the response of the invocation
ProviderDays ==
    Get(Get(call.t.body, "forecast", EmptyDict), "forecastday", EmptyList)

Min(a, b) == IF a <= b THEN a ELSE b

\* C11: whatever number n of daily entries the provider response holds,
\* get_7day_forecast returns the first min(7, n) of them, normalized, in
\* provider order, and never more than 7.
C11_FirstSevenDays ==
    Returned7d =>
        /\ Len(ret.value) <= ForecastDays
        /\ Len(ret.value) = Min(ForecastDays, Len(ProviderDays))
        /\ \A j \in 1..Len(ret.value) : ret.value[j] = DailyEntry(ProviderDays[j])

ReturnedAq == call.op = "get_air_quality" /\ ret.tag = "return" /\ ret.type = "dict"

\* the band of a whole AQI
BandOf(aqi) ==
    IF aqi <= 50 THEN "Good"
    ELSE IF aqi <= 100 THEN "Moderate"
    ELSE IF aqi <= 150 THEN "Unhealthy for Sensitive Groups"
    ELSE "Unhealthy"

BandRank(status) ==
    CASE status = "Good" -> 0
      [] status = "Moderate" -> 1
      [] status = "Unhealthy for Sensitive Groups" -> 2
      [] OTHER -> 3

\* the concentrations the operation read from the response of the invocation
ProviderAirQuality ==
    LET a == Get(Get(call.t.body, "current", EmptyDict), "air_quality", EmptyDict)
    IN [p \in Pollutants |-> Get(a, p, 0)]

\* max(PM2.5 * 2, PM10, NO2 / 2, O3 / 2, CO / 10) truncated to an integer,
\* computed term by term
TruncatedComposite(c) ==
    Max({c["pm2_5"] * 2, c["pm10"], c["no2"] \div 2, c["o3"] \div 2, c["co"] \div 10})

\* C12: the aqi of a result is the composite truncated to an integer, and
\* its status is the band of that integer, so that the aqi and the status
\* of one result never belong to different bands.
C12_StatusIsBandOfAqi ==
    ReturnedAq =>
        /\ ret.value.aqi = TruncatedComposite(ProviderAirQuality)
        /\ ret.value.status = BandOf(ret.value.aqi)

\* the result of get_air_quality for the concentrations c
AirQualityOf(c) == get_air_quality(Http(HttpOk, [current |-> [air_quality |-> c]])).value

\* C13: raising one pollutant of the response at hand, the other four held
\* fixed, lowers neither the aqi nor the band of the status.
C13_AqiMonotonic ==
    ReturnedAq =>
        \A p \in Pollutants, v \in AqValues :
            v >= ProviderAirQuality[p] =>
                LET higher == AirQualityOf([ProviderAirQuality EXCEPT ![p] = v])
                IN /\ higher.aqi >= ret.value.aqi
                   /\ BandRank(higher.status) >= BandRank(ret.value.status)

\* a response whose PM10 dominates PM2.5 * 2, and for which raising PM2.5
\* raises the aqi and the band
C13_Witness ==
    /\ ReturnedAq
    /\ ProviderAirQuality["pm10"] > ProviderAirQuality["pm2_5"] * 2
    /\ ret.value.aqi > 0
    /\ \E v \in AqValues :
           LET higher == AirQualityOf([ProviderAirQuality EXCEPT !["pm2_5"] = v])
           IN /\ v > ProviderAirQuality["pm2_5"]
              /\ higher.aqi > ret.value.aqi
              /\ BandRank(higher.status) > BandRank(ret.value.status)

NumericFields ==
    [temperature |-> "temp_c", feels_like |-> "feelslike_c", humidity |-> "humidity",
     wind_speed |-> "wind_kph", wind_direction |-> "wind_degree",
     pressure |-> "pressure_mb", visibility |-> "vis_km", uv_index |-> "uv"]

ReturnedCurrent ==
    call.op = "get_current_weather" /\ ret.tag = "return" /\ ret.type = "dict"

\* C16: every numeric field of the payload of get_current_weather is
\* present, and is 0 whenever the provider response lacks it.
C16_NumericDefaultsToZero ==
    ReturnedCurrent =>
        \A f \in DOMAIN NumericFields :
            /\ f \in DOMAIN ret.value
            /\ NumericFields[f] \notin DOMAIN Get(call.t.body, "current", EmptyDict)
                   => ret.value[f] = 0

\* a response with a temperature and no humidity
C16_Witness ==
    /\ ReturnedCurrent
    /\ "current" \in DOMAIN call.t.body
    /\ "temp_c" \in DOMAIN call.t.body.current
    /\ "humidity" \notin DOMAIN call.t.body.current
    /\ ret.value.humidity = 0
    /\ ret.value.temperature # 0

(***************************************************************************)
(* Properties of the cache (SpecDb).                                       *)
(***************************************************************************)
RowsOf(rows, k, dt) ==
    SelectSeq(rows, LAMBDA r : r.location_key = k /\ r.data_type = dt)

\* what a get for the pair of the last put must answer at time t
RoundTrip(t) ==
    IF t < lastPut.expires_at THEN RetDict(lastPut.weather_data) ELSE RetNone

\* C2: after cache_weather_data(k, t, p, ttl), and until the next put,
\* get_cached_weather_data(k, t) returns p at every time before
\* now_at_put + ttl and None at every time from then on.
C2_RoundTrip ==
    lastPut.valid =>
        /\ get_cached_weather_data(weather_cache, lastPut.location_key,
                                   lastPut.data_type, now) = RoundTrip(now)
        /\ (/\ lastOp.op = "get_cached_weather_data"
            /\ lastOp.location_key = lastPut.location_key
            /\ lastOp.data_type = lastPut.data_type) => lastOp.result = RoundTrip(now)

\* a get that hits, some time after the put
C2_Witness ==
    /\ lastPut.valid
    /\ lastOp.op = "get_cached_weather_data"
    /\ lastOp.location_key = lastPut.location_key
    /\ lastOp.data_type = lastPut.data_type
    /\ lastOp.result = RetDict(lastPut.weather_data)
    /\ now > 0
    /\ now < lastPut.expires_at

\* C3: a put for (k, t2) leaves the rows of every other pair (k, t1),
\* t1 # t2, as they were.
C3_PutKeepsOtherTypes ==
    [][\A k \in LocationKeys, t1 \in DataTypes :
          (/\ lastOp'.op = "cache_weather_data"
           /\ lastOp'.location_key = k
           /\ lastOp'.data_type # t1)
          => RowsOf(weather_cache', k, t1) = RowsOf(weather_cache, k, t1)]_vars

\* C4: the cache holds at most one row per (key, type), and a get for a
\* pair returns the payload put last for that pair, while it is fresh.
C4_OneRowLatestPayload ==
    \A k \in LocationKeys, dt \in DataTypes :
        /\ Len(RowsOf(weather_cache, k, dt)) <= 1
        /\ (putLog[<<k, dt>>].valid /\ now < putLog[<<k, dt>>].expires_at) =>
               get_cached_weather_data(weather_cache, k, dt, now)
                   = RetDict(putLog[<<k, dt>>].weather_data)

(***************************************************************************)
(* Properties of the handlers (Spec).                                      *)
(***************************************************************************)
Done(r) == pc[r] = "done"

\* the fetches of invocation r whose provider request succeeded
Fetched(r) ==
    {i \in DOMAIN got[r] : ~got[r][i].failed /\ got[r][i].result.tag = "return"}

\* C1: a request that found no fresh cache entry and called the provider
\* has, when it returns, written the result to the cache and logged the
\* outcome.
C1_MissIsCachedAndLogged ==
    \A r \in Requests :
        (Done(r) /\ Fetched(r) # {}) =>
            /\ \E j \in DOMAIN weather_cache : weather_cache[j].expires_at > now
            /\ weather_requests # <<>>

\* C6: a failed fetch of a list is distinguishable from a successful fetch
\* of an empty list, and a failed alerts fetch is not shown as
\* "no active alerts".
C6_FailureIsDistinct ==
    \A r \in Requests :
        (/\ Done(r)
         /\ req[r].handler = "alerts_callback"
         /\ got[r][1].failed)
        => /\ reply[r] # "no_active_alerts"
           /\ \A q \in Requests :
                  (/\ Done(q)
                   /\ req[q].handler = "alerts_callback"
                   /\ ~got[q][1].failed) => got[q][1].result # got[r][1].result

\* C8: every finished request has written exactly one row to
\* weather_requests, and to a request whose fetch failed belongs a row
\* with success = FALSE and an error message.
C8_OneLogRowPerRequest ==
    /\ Len(weather_requests) = Cardinality({r \in Requests : Done(r)})
    /\ \A r \in Requests :
           (Done(r) /\ \E i \in DOMAIN got[r] : got[r][i].failed) =>
               \E j \in DOMAIN weather_requests :
                   /\ ~weather_requests[j].success
                   /\ weather_requests[j].error_message # ""

FullRequest(r) == req[r].handler = "send_weather_info"

\* every fetch of a handler is dispatched only once the one before it has
\* completed
SerializedFetches ==
    \A r \in Requests : Len(providerCalls[r]) <= Len(got[r]) + 1

\* C17: the four fetches of a full weather-info request are not serialized:
\* while the handler waits for a fetch to complete, the later fetches have
\* been dispatched too.
C17_NotSerialized ==
    \A r \in Requests :
        (FullRequest(r) /\ pc[r] = "await") =>
            Len(providerCalls[r]) = Len(Fetches(req[r]))

\* C18: a full weather-info request that has ended has issued its four
\* fetches and each of them has completed, whichever of them failed.
C18_FailureDoesNotBlock ==
    \A r \in Requests :
        (FullRequest(r) /\ Done(r)) =>
            /\ Len(providerCalls[r]) = Len(Fetches(req[r]))
            /\ Len(got[r]) = Len(Fetches(req[r]))

AlertsRequest(r) == req[r].handler = "alerts_callback"

\* C19: weather_cache never holds a row of data type alerts, and every
\* alerts request that is past its fetch has issued a provider request of
\* its own.
C19_AlertsAlwaysFresh ==
    /\ \A j \in DOMAIN weather_cache : weather_cache[j].data_type # "alerts"
    /\ \A r \in Requests :
           (AlertsRequest(r) /\ pc[r] \in {"await", "render", "except", "done"}) =>
               providerCalls[r] = <<"get_weather_alerts">>

\* two alerts requests for the same location, both answered
C19_Witness ==
    /\ \A r \in {1, 2} :
           /\ AlertsRequest(r)
           /\ Done(r)
           /\ providerCalls[r] = <<"get_weather_alerts">>
    /\ req[1].location = req[2].location
    /\ weather_cache = <<>>

(***************************************************************************)
(* Properties of parse_location_input (SpecParse).                         *)
(***************************************************************************)
Parsing == parsed.tokens # <<>>

\* the decimal a numeral token denotes
TokenValue(tok) == [m |-> tok.m, k |-> tok.k]

\* whether the decimal m / 10^k lies in [-bound, bound]
Within(tok, bound) ==
    /\ tok.m >= -bound * Pow10(tok.k)
    /\ tok.m <= bound * Pow10(tok.k)

\* the input as typed is a latitude, a comma, blanks or none, a longitude,
\* both in range; blanks around the whole are trimmed
TypedCoordinates ==
    /\ Len(parsed.tokens) = 2
    /\ parsed.tokens[1].kind = "numeral"
    /\ parsed.tokens[2].kind = "numeral"
    /\ parsed.tokens[1].rpad = <<>>
    /\ Within(parsed.tokens[1], 90)
    /\ Within(parsed.tokens[2], 180)

\* C14: the result is of type coordinates exactly when the trimmed input is
\* lat,lon with both numerals well-formed and in range, and then latitude
\* and longitude are the values typed; every other input of that shape is
\* parsed as a place name.
C14_CoordinatesIffInRange ==
    Parsing =>
        /\ parsed.result.type = "coordinates" <=> TypedCoordinates
        /\ parsed.result.type = "coordinates" =>
               /\ parsed.result.latitude = TokenValue(parsed.tokens[1])
               /\ parsed.result.longitude = TokenValue(parsed.tokens[2])
        /\ parsed.result.type # "coordinates" =>
               /\ parsed.result.type = "location"
               /\ parsed.result.city = parsed.tokens[1].core

\* "90, -180" is read as the coordinates 90, -180
C14_Witness ==
    /\ Parsing
    /\ parsed.result.type = "coordinates"
    /\ parsed.result.latitude = [m |-> 90, k |-> 0]
    /\ parsed.result.longitude = [m |-> -180, k |-> 0]
    /\ parsed.tokens[2].lpad # <<>>

\* "-91,0" is well-formed and out of range: a place name
C14_WitnessOutOfRange ==
    /\ Parsing
    /\ Len(parsed.tokens) = 2
    /\ parsed.tokens[1].kind = "numeral"
    /\ parsed.tokens[2].kind = "numeral"
    /\ parsed.tokens[1].rpad = <<>>
    /\ ~Within(parsed.tokens[1], 90)
    /\ parsed.result.type = "location"

\* C15: of a place-name input, city is the first token trimmed, country the
\* last token trimmed when there are two tokens or more, region the second
\* token trimmed when there are three or more; what is absent is empty.
C15_PlaceTokens ==
    (Parsing /\ parsed.result.type = "location") =>
        LET n == Len(parsed.tokens)
        IN /\ parsed.result.city = parsed.tokens[1].core
           /\ parsed.result.country = IF n >= 2 THEN parsed.tokens[n].core ELSE <<>>
           /\ parsed.result.region = IF n >= 3 THEN parsed.tokens[2].core ELSE <<>>

\* " Oslo ,N Y,,0": four tokens, the region is the second and the country
\* the last
C15_Witness ==
    /\ Parsing
    /\ Len(parsed.tokens) = 4
    /\ parsed.tokens[1].lpad # <<>>
    /\ parsed.result.type = "location"
    /\ parsed.result.city = <<"O", "s", "l", "o">>
    /\ parsed.result.region = <<"N", " ", "Y">>
    /\ parsed.result.country = <<"0">>

(***************************************************************************)
(* Properties of concurrent puts (SpecUpsert).                             *)
(***************************************************************************)
\* the thread that committed last
LastWriter == CHOOSE w \in Committed : \A v \in Committed : worker[v].order <= worker[w].order

KeyRows == SelectSeq(weather_cache, LAMBDA r : r.location_key = UpsertKey)

\* C20: with two threads in cache_weather_data for the same key, the table
\* never holds more than one row for the key; once a thread has committed,
\* the row is whole the row of the thread that committed last, payload and
\* expiry; when both threads have returned there is exactly one row; and a
\* get at any moment returns None or the complete payload of one thread.
C20_AtomicLastWriterWins ==
    /\ Len(KeyRows) <= 1
    /\ Committed = {} => KeyRows = <<>>
    /\ Committed # {} => KeyRows = <<worker[LastWriter].row>>
    /\ (\A w \in Workers : worker[w].pc = "done") => Len(KeyRows) = 1
    /\ (lastOp.op = "get_cached_weather_data" /\ lastOp.location_key = UpsertKey) =>
           \/ lastOp.result = RetNone
           \/ \E w \in Committed : lastOp.result = RetDict(worker[w].payload)

\* both threads committed, with different payloads and expiries; the row is
\* the second one's, and a get between the commits returned the first
\* one's payload
C20_Witness ==
    /\ Committed = Workers
    /\ worker["w1"].payload # worker["w2"].payload
    /\ worker["w1"].row.expires_at # worker["w2"].row.expires_at
    /\ KeyRows = <<worker[LastWriter].row>>
    /\ lastOp.op = "get_cached_weather_data"
    /\ \E w \in Workers : w # LastWriter /\ lastOp.result = RetDict(worker[w].payload)

(***************************************************************************)
(* Properties of the maintenance of the tables (SpecMaintenance, SpecLog). *)
(***************************************************************************)
CleanedUp == lastOp.op = "cleanup_old_data"

\* C22: right after cleanup_old_data(d) at time now, no cache row with
\* expires_at < now remains, and no weather_requests row inserted before
\* now - d days remains.
C22_CleanupEvicts ==
    CleanedUp =>
        /\ \A j \in DOMAIN weather_cache : ~(weather_cache[j].expires_at < now)
        /\ \A j \in DOMAIN weather_requests :
               ~(loggedAt[weather_requests[j].id] < now - lastOp.days * MinutesPerDay)

\* the rows of a table that satisfy Keep(row), in their order
Kept(rows, Keep(_)) == SelectSeq(rows, Keep)

\* C23: log_weather_request appends one row and leaves the rows there as
\* they are; cleanup_old_data only removes rows; no other operation changes
\* weather_requests.
C23_LogAppendOnly ==
    [][/\ lastOp'.op = "log_weather_request" =>
              /\ Len(weather_requests') = Len(weather_requests) + 1
              /\ SubSeq(weather_requests', 1, Len(weather_requests)) = weather_requests
       /\ lastOp'.op = "cleanup_old_data" =>
              \A j \in DOMAIN weather_requests' :
                  \E i \in DOMAIN weather_requests : weather_requests'[j] = weather_requests[i]
       /\ lastOp'.op \notin {"log_weather_request", "cleanup_old_data"} =>
              weather_requests' = weather_requests]_vars

\* a second row logged after the first, both stored
C23_Witness ==
    /\ lastOp.op = "log_weather_request"
    /\ Len(weather_requests) = 2
    /\ weather_requests[1].id = 1
    /\ weather_requests[2].id = 2

\* C28: cleanup_old_data leaves every cache row with expires_at >= now and
\* every weather_requests row not older than the retention cutoff as it is,
\* and get_cached_weather_data changes neither table.
C28_CleanupKeepsLive ==
    [][/\ lastOp'.op = "cleanup_old_data" =>
              LET cutoff == now - lastOp'.days * MinutesPerDay
              IN /\ Kept(weather_cache', LAMBDA r : r.expires_at >= now)
                        = Kept(weather_cache, LAMBDA r : r.expires_at >= now)
                 /\ Kept(weather_requests', LAMBDA r : loggedAt[r.id] >= cutoff)
                        = Kept(weather_requests, LAMBDA r : loggedAt[r.id] >= cutoff)
       /\ lastOp'.op = "get_cached_weather_data" =>
              /\ weather_cache' = weather_cache
              /\ weather_requests' = weather_requests]_vars

(***************************************************************************)
(* Properties of the handlers under cancellation and failure (Spec,        *)
(* SpecLive).                                                              *)
(***************************************************************************)
FreshEntry == \E j \in DOMAIN weather_cache : weather_cache[j].expires_at > now

\* C21: when a request is cancelled after its provider call was dispatched,
\* the call still completes and its result is written to the cache: a fresh
\* cache entry exists from some moment on.
C21_CancelledCallWarmsCache ==
    \A r \in Requests :
        (pc[r] = "cancelled" /\ providerCalls[r] # <<>>) ~> FreshEntry

\* the provider requests a handler must have issued for the fetches it has
\* called: one for each fetch that returned or raised, and one for the
\* fetch it awaits
RequestsDue(r) ==
    LET called == Len(got[r]) + IF pc[r] = "await" THEN 1 ELSE 0
    IN SubSeq(Fetches(req[r]), 1, called)

\* C24: each call of a fetch operation issues exactly one provider request,
\* whether it succeeds or fails: the requests a handler has issued are, one
\* for one, the fetches it has called.
C24_OneRequestPerFetch ==
    \A r \in Requests :
        pc[r] \in {"dispatch", "await", "render", "except", "done"} =>
            providerCalls[r] = RequestsDue(r)

\* a full request all of whose four fetches failed, with four provider
\* requests
C24_Witness ==
    \E r \in Requests :
        /\ FullRequest(r)
        /\ Done(r)
        /\ Len(got[r]) = 4
        /\ \A i \in DOMAIN got[r] : got[r][i].failed
        /\ Len(providerCalls[r]) = 4

(***************************************************************************)
(* Properties of the session of a WeatherService (SpecSession).            *)
(***************************************************************************)
\* C26: however the fetch operations interleave, at most one session is
\* ever created, and every provider request uses that session.
C26_OneSession ==
    /\ session.created <= 1
    /\ \A t \in Tasks : task[t].pc # "idle" => task[t].used = 1

\* two requests in flight at once, on the one session
C26_Witness ==
    /\ \A t \in {1, 2} : task[t].pc = "await" /\ task[t].used = 1
    /\ session.created = 1

\* a fetch operation that has returned its failure value
ReturnedFailure(t) ==
    /\ task[t].pc = "done"
    /\ task[t].result = FailureValue(task[t].op)

\* C27 as amended: once close() has closed a session, that session stays
\* self.session, closed; no session is created any more, and every fetch
\* operation called later returns its failure value and raises nothing.
C27_ClosedSessionIsKept ==
    session.closedId # 0 =>
        /\ session.id = session.closedId
        /\ session.state = "closed"
        /\ session.created = session.closedId
        /\ \A t \in Tasks : task[t].afterClosed => ReturnedFailure(t)

\* a fetch called after the session was closed
C27_Witness ==
    /\ session.closedId = 1
    /\ \E t \in Tasks : task[t].afterClosed /\ ReturnedFailure(t) /\ task[t].used = 1
    /\ session.created = 1

\* C27 as claimed: after any call of close(), no session is created any
\* more, and every fetch operation called later returns its failure value.
C27_AfterAnyClose ==
    session.closeCalled =>
        /\ session.created = session.createdAtClose
        /\ \A t \in Tasks : (task[t].afterClose /\ task[t].pc = "done") => ReturnedFailure(t)

(***************************************************************************)
(* Properties of the users and user_locations tables (SpecUsers,           *)
(* SpecFavorites).                                                         *)
(***************************************************************************)
\* C25: once set_user_language(u, L) has returned True, and until the
\* language of u is changed again, get_user_language(u) returns L, whether
\* or not a users row existed for u.
C25_LanguageSticks ==
    \A u \in UserIds :
        chosen[u] # "none" => get_user_language(users, u) = RetStr(chosen[u])

UserRows(rows, u) == SelectSeq(rows, LAMBDA r : r.user_id = u)

\* the default locations of user u
Defaults(rows, u) == SelectSeq(rows, LAMBDA r : r.user_id = u /\ r.is_default)

\* C29: after every add_favorite_location, each user has at most one
\* default location, the default added last for that user, and the rows of
\* the other users are as they were.
C29_OneDefaultPerUser ==
    [][userOp'.op = "add_favorite_location" =>
          \A u \in UserIds :
              /\ Len(Defaults(user_locations', u)) <= 1
              /\ lastDefault'[u] = 0 => Defaults(user_locations', u) = <<>>
              /\ lastDefault'[u] # 0 =>
                     /\ Len(Defaults(user_locations', u)) = 1
                     /\ Defaults(user_locations', u)[1].id = lastDefault'[u]
              /\ u # userOp'.user_id =>
                     UserRows(user_locations', u) = UserRows(user_locations, u)]_vars

\* user 1 has had two defaults and keeps the later one; user 2 keeps its own
C29_Witness ==
    /\ Len(user_locations) = 3
    /\ user_locations[1].user_id = 1
    /\ user_locations[2].user_id = 2
    /\ user_locations[3].user_id = 1
    /\ lastDefault = <<3, 2>>
    /\ ~user_locations[1].is_default
    /\ user_locations[2].is_default
    /\ user_locations[3].is_default

\* C30: add_user for a user_id that has a row leaves exactly one row for
\* it, with the settings it had.
C30_AddUserKeepsSettings ==
    [][\A u \in UserIds :
          (userOp'.op = "add_user" /\ userOp'.user_id = u /\ UserRows(users, u) # <<>>) =>
              /\ Len(UserRows(users', u)) = 1
              /\ \A c \in SettingColumns :
                     UserRows(users', u)[1][c] = UserRows(users, u)[1][c]]_vars

====
